---- MODULE Spec2Model ----
(***************************************************************************)
(* Resume matcher (src/main.rs): skill extraction, Jaccard scoring,        *)
(* ranking (handle_match) and upload text extraction (handle_parse).       *)
(*                                                                         *)
(* Strings are sequences of one-character strings, bytes are numbers       *)
(* 0..255, and an f64 is a record holding a 53-bit significand and a       *)
(* binary exponent, computed with round-to-nearest-even as IEEE 754 does.  *)
(***************************************************************************)
EXTENDS Integers, Sequences, FiniteSets, TLC

\* ------------------------------------------------------------------------
\* Input bounds
\* ------------------------------------------------------------------------
MaxJobs == 2
MaxTopK == 2

\* ------------------------------------------------------------------------
\* Natural numbers of arbitrary size: little-endian sequences of limbs.
\* They carry the 53-bit significands and the 106-bit products of f64
\* arithmetic, which are wider than the integers TLC computes with.
\* ------------------------------------------------------------------------
LimbBase == 2^12

RECURSIVE BigNorm(_)
BigNorm(n) ==
    IF n = <<>> THEN <<>>
    ELSE IF n[Len(n)] = 0 THEN BigNorm(SubSeq(n, 1, Len(n) - 1))
    ELSE n

RECURSIVE BigFromNat(_)
BigFromNat(k) ==
    IF k = 0 THEN <<>>
    ELSE <<k % LimbBase>> \o BigFromNat(k \div LimbBase)

RECURSIVE BigToNat(_)
BigToNat(n) ==
    IF n = <<>> THEN 0
    ELSE n[1] + LimbBase * BigToNat(Tail(n))

RECURSIVE NatBitLen(_)
NatBitLen(k) == IF k = 0 THEN 0 ELSE 1 + NatBitLen(k \div 2)

BigBitLen(n) ==
    LET m == BigNorm(n)
    IN IF m = <<>> THEN 0 ELSE 12 * (Len(m) - 1) + NatBitLen(m[Len(m)])

RECURSIVE BigMulSmallC(_, _, _)
BigMulSmallC(n, k, carry) ==
    IF n = <<>> THEN BigFromNat(carry)
    ELSE LET t == n[1] * k + carry
         IN <<t % LimbBase>> \o BigMulSmallC(Tail(n), k, t \div LimbBase)

\* n * k for a machine-sized k <= 2^12
BigMulSmall(n, k) == BigNorm(BigMulSmallC(n, k, 0))

RECURSIVE BigAddC(_, _, _)
BigAddC(a, b, carry) ==
    IF a = <<>> /\ b = <<>> THEN BigFromNat(carry)
    ELSE LET x == IF a = <<>> THEN 0 ELSE a[1]
             y == IF b = <<>> THEN 0 ELSE b[1]
             t == x + y + carry
         IN <<t % LimbBase>>
            \o BigAddC(IF a = <<>> THEN <<>> ELSE Tail(a),
                       IF b = <<>> THEN <<>> ELSE Tail(b), t \div LimbBase)

BigAdd(a, b) == BigNorm(BigAddC(a, b, 0))

RECURSIVE BigMul(_, _)
BigMul(a, b) ==
    IF b = <<>> THEN <<>>
    ELSE BigAdd(BigMulSmall(a, b[1]),
                LET r == BigMul(a, Tail(b))
                IN IF r = <<>> THEN <<>> ELSE <<0>> \o r)

\* quotient and remainder of n by a machine-sized d, most significant
\* limb first
RECURSIVE BigDivSmallR(_, _, _)
BigDivSmallR(n, d, i) ==
    IF i > Len(n) THEN [q |-> <<>>, r |-> 0]
    ELSE LET hi  == BigDivSmallR(n, d, i + 1)
             cur == hi.r * LimbBase + n[i]
         IN [q |-> <<cur \div d>> \o hi.q, r |-> cur % d]

BigDivSmall(n, d) ==
    LET res == BigDivSmallR(n, d, 1)
    IN [q |-> BigNorm(res.q), r |-> res.r]

RECURSIVE BigShL(_, _)
BigShL(n, k) ==
    IF n = <<>> THEN <<>>
    ELSE IF k >= 12 THEN <<0>> \o BigShL(n, k - 12)
    ELSE BigMulSmall(n, 2^k)

RECURSIVE BigShR(_, _)
BigShR(n, k) ==
    IF n = <<>> THEN <<>>
    ELSE IF k >= 12 THEN BigShR(Tail(n), k - 12)
    ELSE BigDivSmall(n, 2^k).q

\* -1, 0, 1 as a < b, a = b, a > b
RECURSIVE BigCmpR(_, _, _)
BigCmpR(a, b, i) ==
    IF i = 0 THEN 0
    ELSE IF a[i] < b[i] THEN -1
    ELSE IF a[i] > b[i] THEN 1
    ELSE BigCmpR(a, b, i - 1)

BigCmp(a, b) ==
    LET x == BigNorm(a)
        y == BigNorm(b)
    IN IF Len(x) < Len(y) THEN -1
       ELSE IF Len(x) > Len(y) THEN 1
       ELSE BigCmpR(x, y, Len(x))

BigOdd(n) == n # <<>> /\ n[1] % 2 = 1

\* Where n stands against the midpoint of the k-bit bucket it falls in:
\* -1 below, 0 exactly half way, 1 above (k >= 1).
BigHalfCmp(n, k) ==
    LET q == BigShR(n, k)
    IN BigCmp(BigShL(n, 1), BigShL(BigAdd(BigShL(q, 1), <<1>>), k))

\* ------------------------------------------------------------------------
\* f64: cls is "nan", "zero" or "num"; a "num" is m * 2^e with
\* 2^52 <= m < 2^53.  Every value the program computes is non-negative and
\* far from the subnormal and overflow ranges, so sign and those ranges
\* are not represented.
\* ------------------------------------------------------------------------
F64NaN  == [cls |-> "nan",  m |-> <<>>, e |-> 0]
F64Zero == [cls |-> "zero", m |-> <<>>, e |-> 0]

\* (n + s) * 2^e rounded to nearest, ties to even, where s is a positive
\* amount below one unit of n when sticky holds and 0 otherwise.
F64RoundNormalize(n, e, sticky) ==
    LET L == BigBitLen(n)
    IN IF L = 0 THEN F64Zero
       ELSE IF L <= 53
            THEN [cls |-> "num", m |-> BigShL(n, 53 - L), e |-> e - (53 - L)]
       ELSE LET k  == L - 53
                q  == BigShR(n, k)
                c  == BigHalfCmp(n, k)
                up == c > 0 \/ (c = 0 /\ (sticky \/ BigOdd(q)))
                m1 == IF up THEN BigAdd(q, <<1>>) ELSE q
            IN IF BigBitLen(m1) = 54
               THEN [cls |-> "num", m |-> BigShR(m1, 1), e |-> e + k + 1]
               ELSE [cls |-> "num", m |-> m1, e |-> e + k]

\* usize as f64
F64FromNat(k) == F64RoundNormalize(BigFromNat(k), 0, FALSE)

\* x / d for an f64 x and a divisor that is the f64 of the natural d
F64DivNat(x, d) ==
    IF x.cls = "nan" THEN F64NaN
    ELSE IF d = 0 THEN F64NaN
    ELSE IF x.cls = "zero" THEN F64Zero
    ELSE LET res == BigDivSmall(BigShL(x.m, 72), d)
         IN F64RoundNormalize(res.q, x.e - 72, res.r # 0)

F64Mul(x, y) ==
    IF x.cls = "nan" \/ y.cls = "nan" THEN F64NaN
    ELSE IF x.cls = "zero" \/ y.cls = "zero" THEN F64Zero
    ELSE F64RoundNormalize(BigMul(x.m, y.m), x.e + y.e, FALSE)

F64Add(x, y) ==
    IF x.cls = "nan" \/ y.cls = "nan" THEN F64NaN
    ELSE IF x.cls = "zero" THEN y
    ELSE IF y.cls = "zero" THEN x
    ELSE LET e == IF x.e < y.e THEN x.e ELSE y.e
         IN F64RoundNormalize(BigAdd(BigShL(x.m, x.e - e), BigShL(y.m, y.e - e)),
                              e, FALSE)

\* f64::round: to the nearest integer, half way cases away from zero
F64Round(x) ==
    IF x.cls # "num" THEN x
    ELSE IF x.e >= 0 THEN x
    ELSE LET k == 0 - x.e
             q == BigShR(x.m, k)
             r == IF BigHalfCmp(x.m, k) >= 0 THEN BigAdd(q, <<1>>) ELSE q
         IN F64RoundNormalize(r, 0, FALSE)

\* Option<Ordering> of a.partial_cmp(b): "none" when either is NaN
F64PartialCmp(a, b) ==
    IF a.cls = "nan" \/ b.cls = "nan" THEN "none"
    ELSE IF a.cls = "zero" /\ b.cls = "zero" THEN "equal"
    ELSE IF a.cls = "zero" THEN "less"
    ELSE IF b.cls = "zero" THEN "greater"
    ELSE IF a.e < b.e THEN "less"
    ELSE IF a.e > b.e THEN "greater"
    ELSE LET c == BigCmp(a.m, b.m)
         IN IF c < 0 THEN "less" ELSE IF c > 0 THEN "greater" ELSE "equal"

\* {:.3} of a finite non-negative f64, as the number of thousandths shown:
\* the exact binary value, rounded half to even
F64Fixed3(x) ==
    IF x.cls # "num" THEN 0
    ELSE LET n == BigMulSmall(x.m, 1000)
         IN IF x.e >= 0 THEN BigToNat(BigShL(n, x.e))
            ELSE LET k == 0 - x.e
                     q == BigShR(n, k)
                     c == BigHalfCmp(n, k)
                 IN BigToNat(q) + (IF c > 0 \/ (c = 0 /\ BigOdd(q)) THEN 1 ELSE 0)

\* the literals of the score formula
Lit_0_6   == F64DivNat(F64FromNat(6), 10)
Lit_0_25  == F64DivNat(F64FromNat(1), 4)
Lit_0_15  == F64DivNat(F64FromNat(15), 100)
Lit_100_0 == F64FromNat(100)
Lit_0_0   == F64Zero

\* ------------------------------------------------------------------------
\* Text.  A String is a sequence of characters.  The characters are the
\* printable ASCII ones, listed in code order (the double quote, the backquote and
\* the backslash, which no text here contains, are left out).
\* ------------------------------------------------------------------------
Digits ==
    <<
    "0", "1", "2", "3", "4", "5", "6", "7", "8", "9"
    >>

UpperCase ==
    <<
    "A", "B", "C", "D", "E", "F", "G", "H", "I", "J", "K", "L", "M",
    "N", "O", "P", "Q", "R", "S", "T", "U", "V", "W", "X", "Y", "Z"
    >>

LowerCase ==
    <<
    "a", "b", "c", "d", "e", "f", "g", "h", "i", "j", "k", "l", "m",
    "n", "o", "p", "q", "r", "s", "t", "u", "v", "w", "x", "y", "z"
    >>

Ascii ==
    <<" ", "!", "#", "$", "%", "&", "'", "(", ")", "*", "+", ",", "-", ".", "/">>
    \o Digits \o <<":", ";", "<", "=", ">", "?", "@">>
    \o UpperCase \o <<"[", "]", "^", "_">>
    \o LowerCase \o <<"{", "|", "}", "~">>

Chars == {Ascii[i] : i \in 1..Len(Ascii)}

\* the rank of a character in code order
CodeTable == [c \in Chars |-> CHOOSE i \in 1..Len(Ascii) : Ascii[i] = c]

\* char::to_lowercase on the ASCII range
ToLowerTable ==
    [c \in Chars |->
        IF \E i \in 1..Len(UpperCase) : UpperCase[i] = c
        THEN LowerCase[CHOOSE i \in 1..Len(UpperCase) : UpperCase[i] = c]
        ELSE c]

\* \w of the regex crate on the ASCII range: letters, digits, underscore
WordCharTable ==
    [c \in Chars |->
        \E i \in 1..Len(Ascii) :
            /\ Ascii[i] = c
            /\ \/ c = "_"
               \/ \E j \in 1..Len(Digits) : Digits[j] = c
               \/ \E j \in 1..Len(UpperCase) : UpperCase[j] = c
               \/ \E j \in 1..Len(LowerCase) : LowerCase[j] = c]

\* str::to_lowercase
to_lowercase(s) == [i \in 1..Len(s) |-> ToLowerTable[s[i]]]

\* Ord for String: lexicographic by character code, a proper prefix first
RECURSIVE StrCmp(_, _)
StrCmp(a, b) ==
    IF a = <<>> /\ b = <<>> THEN "equal"
    ELSE IF a = <<>> THEN "less"
    ELSE IF b = <<>> THEN "greater"
    ELSE IF CodeTable[a[1]] < CodeTable[b[1]] THEN "less"
    ELSE IF CodeTable[a[1]] > CodeTable[b[1]] THEN "greater"
    ELSE StrCmp(Tail(a), Tail(b))

\* Vec<String>::sort of the elements of a set
RECURSIVE SortStrings(_)
SortStrings(S) ==
    IF S = {} THEN <<>>
    ELSE LET least == CHOOSE x \in S : \A y \in S : StrCmp(x, y) # "greater"
         IN <<least>> \o SortStrings(S \ {least})

\* ------------------------------------------------------------------------
\* Skill patterns.  A pattern is a sequence of characters, each possibly
\* optional (the ? operator), followed or not by \b; all of them are
\* compiled with (?i).
\* ------------------------------------------------------------------------
Lit(s) == [i \in 1..Len(s) |-> [ch |-> s[i], opt |-> FALSE]]
Opt(c) == <<[ch |-> c, opt |-> TRUE]>>

SKILL_PATTERNS == <<
    [elems |-> Lit(<<"r", "u", "s", "t">>), wb |-> TRUE],
    [elems |-> Lit(<<"c", "+", "+">>), wb |-> FALSE],
    [elems |-> Lit(<<"p", "y", "t", "h", "o", "n">>), wb |-> TRUE],
    [elems |-> Lit(<<"j", "a", "v", "a">>), wb |-> TRUE],
    [elems |-> Lit(<<"s", "q", "l">>), wb |-> TRUE],
    [elems |-> Lit(<<"p", "o", "s", "t", "g", "r", "e", "s", "q", "l">>), wb |-> TRUE],
    [elems |-> Lit(<<"d", "o", "c", "k", "e", "r">>), wb |-> TRUE],
    [elems |-> Lit(<<"k", "u", "b", "e", "r", "n", "e", "t", "e", "s">>), wb |-> TRUE],
    [elems |-> Lit(<<"l", "i", "n", "u", "x">>), wb |-> TRUE],
    [elems |-> Lit(<<"h", "t", "m", "l">>), wb |-> TRUE],
    [elems |-> Lit(<<"c", "s", "s">>), wb |-> TRUE],
    [elems |-> Lit(<<"j", "a", "v", "a", "s", "c", "r", "i", "p", "t">>), wb |-> TRUE],
    [elems |-> Lit(<<"r", "e", "a", "c", "t">>), wb |-> TRUE],
    [elems |-> Lit(<<"n", "o", "d", "e">>) \o Opt(".") \o Lit(<<"j", "s">>), wb |-> TRUE],
    [elems |-> Lit(<<"n", "l", "p">>), wb |-> TRUE],
    [elems |-> Lit(<<"n", "a", "t", "u", "r", "a", "l", " ", "l", "a", "n", "g", "u", "a", "g", "e", " ", "p", "r", "o", "c", "e", "s", "s", "i", "n", "g">>), wb |-> TRUE]
>>

\* texts and skill lists of the requests
Text_Resume ==
    <<"I", " ", "k", "n", "o", "w", " ", "R", "u", "s", "t", " ", "a", "n", "d", " ", "P", "y", "t", "h", "o", "n">>

Text_Trust ==
    <<"P", "y", "t", "h", "o", "n", ",", " ", "T", "r", "u", "s", "t", " ", "S", "Q", "L", ",", " ", "C", "+", "+">>

Desc_Rust ==
    <<"L", "o", "o", "k", "i", "n", "g", " ", "f", "o", "r", " ", "a", " ", "R", "u", "s", "t", " ", "d", "e", "v", "e", "l", "o", "p", "e", "r">>

Text_Python ==
    <<"P", "y", "t", "h", "o", "n">>

Text_RUST ==
    <<"R", "U", "S", "T">>

\* 30 required skills: two that the patterns know and 28 that they do not
Req_Wide == <<
    <<"P", "y", "t", "h", "o", "n">>, <<"S", "Q", "L">>,
    <<"0">>, <<"1">>, <<"2">>, <<"3">>, <<"4">>, <<"5">>, <<"6">>,
    <<"7">>, <<"8">>, <<"9">>, <<"a">>, <<"b">>, <<"c">>, <<"d">>,
    <<"e">>, <<"f">>, <<"g">>, <<"h">>, <<"i">>, <<"j">>, <<"k">>,
    <<"l">>, <<"m">>, <<"n">>, <<"o">>, <<"p">>, <<"q">>, <<"r">>
>>

\* \b at the gap before text[p]: exactly one side is a word character
IsWordBoundary(text, p) ==
    LET before == p > 1 /\ WordCharTable[text[p - 1]]
        after  == p <= Len(text) /\ WordCharTable[text[p]]
    IN before # after

\* The index just past the match of re.elems[k..] that starts at text[p], or
\* 0 when there is none; an optional character is taken first and given up
\* only when the rest then fails (greedy, leftmost-first).
RECURSIVE RegexMatchFrom(_, _, _, _)
RegexMatchFrom(re, k, text, p) ==
    IF k > Len(re.elems)
    THEN IF re.wb => IsWordBoundary(text, p) THEN p ELSE 0
    ELSE LET el   == re.elems[k]
             take == IF p <= Len(text) /\ ToLowerTable[text[p]] = el.ch
                     THEN RegexMatchFrom(re, k + 1, text, p + 1)
                     ELSE 0
         IN IF el.opt /\ take = 0
            THEN RegexMatchFrom(re, k + 1, text, p)
            ELSE take

\* Regex::find_iter from position pos on: the lower-cased text of every
\* successive non-overlapping match
RECURSIVE find_iter(_, _, _)
find_iter(re, text, pos) ==
    IF pos > Len(text) THEN {}
    ELSE LET e == RegexMatchFrom(re, 1, text, pos)
         IN IF e = 0 THEN find_iter(re, text, pos + 1)
            ELSE {to_lowercase(SubSeq(text, pos, e - 1))}
                 \cup find_iter(re, text, e)

extract_skills_from_text(text) ==
    LET found == UNION {find_iter(SKILL_PATTERNS[i], text, 1) :
                            i \in 1..Len(SKILL_PATTERNS)}
    IN SortStrings(found)

SeqToSet(s) == {s[i] : i \in 1..Len(s)}

\* ------------------------------------------------------------------------
\* Requests offered to /match
\* ------------------------------------------------------------------------
None == <<>>
Some(x) == <<x>>

CandidateTexts == {<<>>, Text_Resume, Text_Trust}

JobIds == {<<"a">>, <<"b">>}

\* description and required_skills of the jobs offered; the last one has
\* 31 skills, 3 of them among the 4 of Text_Trust
JobBodies ==
    {[description |-> <<>>,      required_skills |-> None],
     [description |-> Desc_Rust, required_skills |-> None],
     [description |-> <<>>,
      required_skills |-> Some(<<Text_Python, Text_RUST>>)],
     [description |-> Desc_Rust, required_skills |-> Some(Req_Wide)]}

JobInputs ==
    {[id |-> i, title |-> <<>>, description |-> b.description,
      required_skills |-> b.required_skills] : i \in JobIds, b \in JobBodies}

MatchRequests ==
    {[candidate |-> [name |-> None, raw_text |-> t], jobs |-> js, top_k |-> k] :
        t \in CandidateTexts,
        js \in UNION {[1..n -> JobInputs] : n \in 0..MaxJobs},
        k \in {None} \cup {Some(n) : n \in 0..MaxTopK}}

NoRequest ==
    [candidate |-> [name |-> None, raw_text |-> <<>>], jobs |-> <<>>,
     top_k |-> None]

\* extract_skills_from_text is a pure function of the text alone; its values
\* on the texts of the requests offered are computed once and looked up by
\* the handler.
RequestTexts == CandidateTexts \cup {j.description : j \in JobInputs}

SkillsOf == [t \in RequestTexts |-> extract_skills_from_text(t)]

\* ------------------------------------------------------------------------
\* Scoring
\* ------------------------------------------------------------------------
\* jaccard_similarity with the case of two empty sets left to the
\* zero-union branch
jaccard_similarity_ZeroWhenEmpty(a, b) ==
    LET inter == F64FromNat(Cardinality(a \cap b))
        uni   == Cardinality(a \cup b)
    IN IF uni = 0 THEN F64Zero ELSE F64DivNat(inter, uni)

\* jaccard_similarity dividing without a look at the union
jaccard_similarity_Unguarded(a, b) ==
    F64DivNat(F64FromNat(Cardinality(a \cap b)), Cardinality(a \cup b))

\* lines 71-82
jaccard_similarity(a, b) ==
    IF a = {} /\ b = {} THEN F64FromNat(1)
    ELSE LET inter == F64FromNat(Cardinality(a \cap b))
             uni   == Cardinality(a \cup b)
         IN IF uni = 0 THEN F64Zero ELSE F64DivNat(inter, uni)

\* JobSkills with the required skills inserted as they were sent
JobSkills_AsSent(job) ==
    LET req == IF job.required_skills = None THEN {}
               ELSE SeqToSet(job.required_skills[1])
    IN req \cup {to_lowercase(s) : s \in SeqToSet(SkillsOf[job.description])}

\* lines 94-103: the lower-cased required skills and the skills found in
\* the description
JobSkills(job) ==
    LET req == IF job.required_skills = None THEN {}
               ELSE {to_lowercase(s) : s \in SeqToSet(job.required_skills[1])}
    IN req \cup {to_lowercase(s) : s \in SeqToSet(SkillsOf[job.description])}

\* lines 106-109
FinalScore(skill_score) ==
    LET experience_score == Lit_0_0
    IN F64Mul(Lit_100_0,
              F64Add(F64Add(F64Mul(Lit_0_6, skill_score),
                            F64Mul(Lit_0_25, experience_score)),
                     F64Mul(Lit_0_15, Lit_0_0)))

\* line 118
RoundedScore(final_score) ==
    F64DivNat(F64Round(F64Mul(final_score, Lit_100_0)), 100)

\* Every order in which the iterator of a HashSet can yield its elements:
\* the hasher is seeded at random, so the order is not fixed by the elements.
RECURSIVE IterationOrders(_)
IterationOrders(S) ==
    IF S = {} THEN {<<>>}
    ELSE UNION {{<<x>> \o rest : rest \in IterationOrders(S \ {x})} : x \in S}

\* The MatchResults one pass of the loop body can push for a job
MatchResultsOf(cands, job) ==
    LET skills      == JobSkills(job)
        similarity  == jaccard_similarity(cands, skills)
        final_score == FinalScore(similarity)
        score       == RoundedScore(final_score)
        explanation == F64Fixed3(similarity)
    IN {[job_id         |-> job.id,
         score          |-> score,
         matched_skills |-> matched,
         explanation    |-> explanation] :
            matched \in IterationOrders(cands \cap skills)}

\* ------------------------------------------------------------------------
\* Ranking: slice::sort_by is a stable sort; the comparator orders by
\* descending score and unwraps partial_cmp.
\* ------------------------------------------------------------------------
ComparatorPanics(rs) ==
    \E i, j \in 1..Len(rs) :
        i # j /\ F64PartialCmp(rs[j].score, rs[i].score) = "none"

\* r inserted behind every element it does not strictly precede
RECURSIVE InsertByScore(_, _)
InsertByScore(sorted, r) ==
    IF sorted = <<>> THEN <<r>>
    ELSE IF F64PartialCmp(r.score, sorted[1].score) = "greater"
         THEN <<r>> \o sorted
         ELSE <<sorted[1]>> \o InsertByScore(Tail(sorted), r)

RECURSIVE SortByScore(_)
SortByScore(rs) ==
    IF rs = <<>> THEN <<>>
    ELSE InsertByScore(SortByScore(SubSeq(rs, 1, Len(rs) - 1)), rs[Len(rs)])

Min(a, b) == IF a < b THEN a ELSE b

\* Truncate keeping one entry more than asked for
Truncate_OneMore(rs, top_k) ==
    LET k == Min(IF top_k = <<>> THEN Len(rs) ELSE top_k[1] + 1, Len(rs))
    IN SubSeq(rs, 1, k)

\* lines 125-126
Truncate(rs, top_k) ==
    LET k == Min(IF top_k = <<>> THEN Len(rs) ELSE top_k[1], Len(rs))
    IN SubSeq(rs, 1, k)

\* ------------------------------------------------------------------------
\* Uploads offered to /parse.  Bytes are numbers 0..255 and the text a
\* handler returns is a sequence of Unicode code points.
\* ------------------------------------------------------------------------
Clients == {1, 2}

Name_CvPdf ==
    <<"c", "v", ".", "p", "d", "f">>

Name_NotesTxt ==
    <<"n", "o", "t", "e", "s", ".", "t", "x", "t">>

Name_Upload ==
    <<"u", "p", "l", "o", "a", "d">>

Suffix_Pdf ==
    <<".", "p", "d", "f">>

\* "%PDF", the header every PDF file starts with
PdfHeader == <<37, 80, 68, 70>>

Bytes_Hi      == <<72, 105>>
Bytes_Yo      == <<89, 111>>
Bytes_Cafe    == <<99, 97, 102, 195, 169>>
Bytes_Invalid == <<72, 255, 105>>
Bytes_Garbage == <<0, 1>>

\* bytes sent under the name cv.pdf: two documents and a file that is no PDF
PdfUploadData ==
    {PdfHeader \o Bytes_Hi, PdfHeader \o Bytes_Yo, Bytes_Garbage}

\* bytes sent as notes.txt or without a file name: text in UTF-8 and text
\* that is not UTF-8
TextUploadData ==
    {Bytes_Hi, Bytes_Cafe, Bytes_Invalid}

\* What multipart.next_field() can yield first: no field, a malformed body,
\* or a field with an optional file name
Fields ==
    {[kind |-> "none"], [kind |-> "malformed"]}
    \cup {[kind |-> "field", file_name |-> n] :
            n \in {None, Some(Name_CvPdf), Some(Name_NotesTxt)}}

\* What field.bytes() can yield: the bytes of the field, or an error when the
\* body breaks off
Bodies ==
    {[kind |-> "broken"]}
    \cup {[kind |-> "bytes", data |-> d] :
            d \in PdfUploadData \cup TextUploadData}

ends_with(s, suffix) ==
    /\ Len(s) >= Len(suffix)
    /\ SubSeq(s, Len(s) - Len(suffix) + 1, Len(s)) = suffix

\* the bytes sent under a file name
BodiesOf(file_name) ==
    IF ends_with(file_name, Suffix_Pdf) THEN PdfUploadData ELSE TextUploadData

ReplacementChar == 65533

\* String::from_utf8_lossy on byte strings made of ASCII bytes, two-byte
\* sequences and bytes that can start or continue nothing: a well-formed
\* sequence gives its code point, any other byte gives U+FFFD.
RECURSIVE from_utf8_lossy(_)
from_utf8_lossy(b) ==
    IF b = <<>> THEN <<>>
    ELSE IF b[1] < 128 THEN <<b[1]>> \o from_utf8_lossy(Tail(b))
    ELSE IF /\ b[1] \in 194..223
            /\ Len(b) >= 2
            /\ b[2] \in 128..191
         THEN <<(b[1] - 192) * 64 + (b[2] - 128)>>
              \o from_utf8_lossy(SubSeq(b, 3, Len(b)))
    ELSE <<ReplacementChar>> \o from_utf8_lossy(Tail(b))

IsPdf(content) ==
    /\ Len(content) >= Len(PdfHeader)
    /\ SubSeq(content, 1, Len(PdfHeader)) = PdfHeader

\* Command::new("pdftotext").arg(path).arg("-").output() on a file holding
\* content: Err when the program cannot be started; otherwise Ok with the
\* document's text on stdout, or with an empty stdout and a failure status
\* when the file is not a PDF.  The text of a document is written here as
\* the bytes that follow its header.
PdfToTextOutput(installed, content) ==
    IF ~installed THEN [ok |-> FALSE, stdout |-> <<>>, success |-> FALSE]
    ELSE IF content # None /\ IsPdf(content[1])
    THEN [ok |-> TRUE, success |-> TRUE,
          stdout |-> SubSeq(content[1], Len(PdfHeader) + 1, Len(content[1]))]
    ELSE [ok |-> TRUE, stdout |-> <<>>, success |-> FALSE]

FileNames == {Name_Upload, Name_CvPdf, Name_NotesTxt}

\* write_all through a handle opened by File::create: the bytes go to
\* offset 0, and whatever another handle has written past their end since
\* the truncation stays in the file
WriteAtStart(content, data) ==
    IF Len(content) > Len(data)
    THEN data \o SubSeq(content, Len(data) + 1, Len(content))
    ELSE data

NoUpload == [file_name |-> <<>>, data |-> <<>>]
NoResult == [kind |-> "none"]

VARIABLES
    pc,            \* where handle_match stands: "idle", "scoring", "done"
    payload,       \* the MatchRequest being served
    cand_set,      \* HashSet of the candidate's skills
    job_skills,    \* skill set of the job scored last
    skill_score,   \* jaccard_similarity of the job scored last
    results,       \* Vec<MatchResult>
    outcome,       \* "none", "ok" (the handler returned Ok(Json(results)))
                   \* or "panic"
    ppc,           \* per /parse request: "idle", "bytes", "create",
                   \* "write", "extract", "done"
    upload,        \* per /parse request: file_name and data of its field
    parsed,        \* per /parse request: what handle_parse returned
    tmp,           \* the files under /tmp, by name: None or Some(bytes)
    pdftotext_installed

matchVars == <<pc, payload, cand_set, job_skills, skill_score, results, outcome>>

parseVars == <<ppc, upload, parsed, tmp, pdftotext_installed>>

vars == <<pc, payload, cand_set, job_skills, skill_score, results, outcome,
          ppc, upload, parsed, tmp, pdftotext_installed>>

MatchInit ==
    /\ pc = "idle"
    /\ payload = NoRequest
    /\ cand_set = {}
    /\ job_skills = {}
    /\ skill_score = F64Zero
    /\ results = <<>>
    /\ outcome = "none"

ParseInit ==
    /\ ppc = [c \in Clients |-> "idle"]
    /\ upload = [c \in Clients |-> NoUpload]
    /\ parsed = [c \in Clients |-> NoResult]
    /\ tmp = [n \in FileNames |-> None]

Init ==
    /\ MatchInit
    /\ ParseInit
    /\ pdftotext_installed = TRUE

InitParse ==
    /\ MatchInit
    /\ ParseInit
    /\ pdftotext_installed \in BOOLEAN

\* lines 86-91
Receive(req) ==
    /\ pc = "idle"
    /\ pc' = "scoring"
    /\ payload' = req
    /\ cand_set' = SeqToSet(SkillsOf[req.candidate.raw_text])
    /\ results' = <<>>
    /\ UNCHANGED <<job_skills, skill_score, outcome>>
    /\ UNCHANGED parseVars

\* lines 93-122, one pass of the loop
ScoreJob ==
    /\ pc = "scoring"
    /\ Len(results) < Len(payload.jobs)
    /\ LET job    == payload.jobs[Len(results) + 1]
           skills == JobSkills(job)
       IN /\ job_skills' = skills
          /\ skill_score' = jaccard_similarity(cand_set, skills)
          /\ \E r \in MatchResultsOf(cand_set, job) :
                results' = Append(results, r)
    /\ UNCHANGED <<pc, payload, cand_set, outcome>>
    /\ UNCHANGED parseVars

\* lines 124-128
Rank ==
    /\ pc = "scoring"
    /\ Len(results) = Len(payload.jobs)
    /\ pc' = "done"
    /\ IF ComparatorPanics(results)
       THEN /\ outcome' = "panic"
            /\ UNCHANGED results
       ELSE /\ outcome' = "ok"
            /\ results' = Truncate(SortByScore(results), payload.top_k)
    /\ UNCHANGED <<payload, cand_set, job_skills, skill_score>>
    /\ UNCHANGED parseVars

\* the response is sent and the handler's locals are dropped
Reply ==
    /\ pc = "done"
    /\ pc' = "idle"
    /\ payload' = NoRequest
    /\ cand_set' = {}
    /\ job_skills' = {}
    /\ skill_score' = F64Zero
    /\ results' = <<>>
    /\ outcome' = "none"
    /\ UNCHANGED parseVars

\* lines 132-133 and 154: next_field().await yields the first field of the
\* multipart body, and its file name is read
ParseReceive(c, up) ==
    /\ ppc[c] = "idle"
    /\ IF up.kind = "malformed"
       THEN /\ ppc' = [ppc EXCEPT ![c] = "done"]
            /\ parsed' = [parsed EXCEPT ![c] = [kind |-> "panic"]]
            /\ UNCHANGED upload
       ELSE IF up.kind = "none"
       THEN /\ ppc' = [ppc EXCEPT ![c] = "done"]
            /\ parsed' = [parsed EXCEPT ![c] =
                            [kind |-> "err", status |-> "BAD_REQUEST",
                             message |-> "No file uploaded"]]
            /\ UNCHANGED upload
       ELSE /\ ppc' = [ppc EXCEPT ![c] = "bytes"]
            /\ upload' = [upload EXCEPT ![c] =
                            [file_name |-> IF up.file_name = None
                                           THEN Name_Upload
                                           ELSE up.file_name[1],
                             data |-> <<>>]]
            /\ UNCHANGED parsed
    /\ UNCHANGED <<tmp, pdftotext_installed>>
    /\ UNCHANGED matchVars

\* line 134: field.bytes().await yields the field's bytes, or the unwrap
\* panics and the field is dropped
ParseBytes(c, body) ==
    /\ ppc[c] = "bytes"
    /\ IF body.kind = "broken"
       THEN /\ ppc' = [ppc EXCEPT ![c] = "done"]
            /\ parsed' = [parsed EXCEPT ![c] = [kind |-> "panic"]]
            /\ upload' = [upload EXCEPT ![c] = NoUpload]
       ELSE /\ body.data \in BodiesOf(upload[c].file_name)
            /\ ppc' = [ppc EXCEPT ![c] = "create"]
            /\ upload' = [upload EXCEPT ![c].data = body.data]
            /\ UNCHANGED parsed
    /\ UNCHANGED <<tmp, pdftotext_installed>>
    /\ UNCHANGED matchVars

\* lines 136-137, first half of fs::write: File::create opens the path and
\* truncates it, so the file exists and is empty until write_all runs
ParseCreate(c) ==
    /\ ppc[c] = "create"
    /\ ppc' = [ppc EXCEPT ![c] = "write"]
    /\ tmp' = [tmp EXCEPT ![upload[c].file_name] = Some(<<>>)]
    /\ UNCHANGED <<upload, parsed, pdftotext_installed>>
    /\ UNCHANGED matchVars

\* line 137, second half of fs::write: write_all puts the bytes at the start
\* of the file this request opened
ParseWrite(c) ==
    /\ ppc[c] = "write"
    /\ ppc' = [ppc EXCEPT ![c] = "extract"]
    /\ tmp' = [tmp EXCEPT ![upload[c].file_name] =
                 Some(WriteAtStart(tmp[upload[c].file_name][1], upload[c].data))]
    /\ UNCHANGED <<upload, parsed, pdftotext_installed>>
    /\ UNCHANGED matchVars

\* lines 139-152
ParseExtract(c) ==
    /\ ppc[c] = "extract"
    /\ ppc' = [ppc EXCEPT ![c] = "done"]
    /\ IF ends_with(upload[c].file_name, Suffix_Pdf)
       THEN LET output == PdfToTextOutput(pdftotext_installed,
                                          tmp[upload[c].file_name])
            IN IF ~output.ok
               THEN parsed' = [parsed EXCEPT ![c] = [kind |-> "panic"]]
               ELSE parsed' = [parsed EXCEPT ![c] =
                        [kind |-> "ok",
                         text |-> from_utf8_lossy(output.stdout)]]
       ELSE parsed' = [parsed EXCEPT ![c] =
                [kind |-> "ok", text |-> from_utf8_lossy(upload[c].data)]]
    /\ UNCHANGED <<upload, tmp, pdftotext_installed>>
    /\ UNCHANGED matchVars

\* the response is sent (or the task has died) and the locals are dropped;
\* the file stays in /tmp
ParseReply(c) ==
    /\ ppc[c] = "done"
    /\ ppc' = [ppc EXCEPT ![c] = "idle"]
    /\ upload' = [upload EXCEPT ![c] = NoUpload]
    /\ parsed' = [parsed EXCEPT ![c] = NoResult]
    /\ UNCHANGED <<tmp, pdftotext_installed>>
    /\ UNCHANGED matchVars

Next ==
    \/ pc = "idle" /\ \E req \in MatchRequests : Receive(req)
    \/ ScoreJob
    \/ Rank
    \/ Reply

Spec == Init /\ [][Next]_vars

NextParse ==
    \/ \E c \in Clients : \E up \in Fields : ParseReceive(c, up)
    \/ \E c \in Clients : \E body \in Bodies : ParseBytes(c, body)
    \/ \E c \in Clients : ParseCreate(c)
    \/ \E c \in Clients : ParseWrite(c)
    \/ \E c \in Clients : ParseExtract(c)
    \/ \E c \in Clients : ParseReply(c)

SpecParse == InitParse /\ [][NextParse]_vars
\* ------------------------------------------------------------------------
\* Properties
\* ------------------------------------------------------------------------
IndexPermutations(n) ==
    {f \in [1..n -> 1..n] : \A i, j \in 1..n : i # j => f[i] # f[j]}

\* the skill sets as the specification describes them
CandidateSkillSet(req) ==
    SeqToSet(SkillsOf[req.candidate.raw_text])

JobSkillSet(job) ==
    (IF job.required_skills = None THEN {}
     ELSE {to_lowercase(job.required_skills[1][i]) :
              i \in 1..Len(job.required_skills[1])})
    \cup SeqToSet(SkillsOf[job.description])

\* the f64 nearest to h hundredths
Hundredths(h) == F64DivNat(F64FromNat(h), 100)

\* num / den rounded to the nearest integer, half way cases away from zero
RoundHalfAway(num, den) == (2 * num + den) \div (2 * den)

ScoreAtLeast(x, y) == F64PartialCmp(x, y) \in {"greater", "equal"}

Finished == pc = "done" /\ outcome = "ok"

\* C1: the returned sequence is non-increasing in score, and two results
\* with equal score appear in ascending job_id order.
C1_RankOrder ==
    Finished =>
        \A i \in 1..(Len(results) - 1) :
            /\ ScoreAtLeast(results[i].score, results[i + 1].score)
            /\ F64PartialCmp(results[i].score, results[i + 1].score) = "equal"
                => StrCmp(results[i].job_id, results[i + 1].job_id) # "greater"

\* C2: the handler returns the first min(top_k, n) entries of the full
\* ranking of the n scored results, and all n of them when top_k is absent.
\* The full ranking is the rearrangement of the scored results that is
\* non-increasing in score and keeps results of equal score in the order
\* they were scored.
C2_TopKPrefix ==
    [][(pc = "scoring" /\ pc' = "done" /\ outcome' = "ok") =>
        LET n == Len(results)
            k == IF payload.top_k = None THEN n
                 ELSE IF payload.top_k[1] < n THEN payload.top_k[1] ELSE n
        IN /\ Len(results') = k
           /\ \E f \in IndexPermutations(n) :
                /\ \A i, j \in 1..n :
                      i < j =>
                        /\ ScoreAtLeast(results[f[i]].score, results[f[j]].score)
                        /\ F64PartialCmp(results[f[i]].score,
                                         results[f[j]].score) = "equal"
                            => f[i] < f[j]
                /\ \A i \in 1..k : results'[i] = results[f[i]]]_vars

C2_Witness ==
    /\ Finished
    /\ Len(payload.jobs) = 2
    /\ payload.top_k = Some(1)
    /\ Len(results) = 1
    /\ results[1].job_id = payload.jobs[2].id
    /\ payload.jobs[1].id # payload.jobs[2].id

\* C3: the similarity of the job scored last is |A n B| / |A u B| when the
\* union is not empty and 1 when both sets are empty; it lies between 0 and
\* 1, and is 1 when the two sets are equal.
C3_Jaccard ==
    (pc = "scoring" /\ Len(results) > 0) =>
        LET inter == Cardinality(cand_set \cap job_skills)
            uni   == Cardinality(cand_set \cup job_skills)
        IN /\ uni = 0 => skill_score = F64FromNat(1)
           /\ uni # 0 => skill_score = F64DivNat(F64FromNat(inter), uni)
           /\ ScoreAtLeast(skill_score, F64Zero)
           /\ ScoreAtLeast(F64FromNat(1), skill_score)
           /\ cand_set = job_skills => skill_score = F64FromNat(1)
           /\ cand_set = CandidateSkillSet(payload)
           /\ job_skills = JobSkillSet(payload.jobs[Len(results)])

C3_Witness ==
    /\ pc = "scoring"
    /\ Len(results) > 0
    /\ cand_set \cap job_skills # {}
    /\ cand_set # job_skills
    /\ F64PartialCmp(skill_score, F64FromNat(1)) = "less"
    /\ F64PartialCmp(skill_score, F64Zero) = "greater"

\* C4: the score of every job's MatchResult is 60 * similarity rounded to 2
\* decimal places, half way cases away from zero, and lies in [0, 60].
C4_Score ==
    pc = "scoring" =>
        \A i \in 1..Len(results) :
            LET A     == CandidateSkillSet(payload)
                B     == JobSkillSet(payload.jobs[i])
                inter == Cardinality(A \cap B)
                uni   == Cardinality(A \cup B)
                h     == IF uni = 0 THEN 6000
                         ELSE RoundHalfAway(6000 * inter, uni)
            IN /\ results[i].score = Hundredths(h)
               /\ h \in 0..6000

\* C5: matched_skills holds exactly the elements of the intersection of the
\* candidate's skill set and the job's skill set, each once.
C5_Matched ==
    /\ pc = "scoring" =>
        \A i \in 1..Len(results) :
            LET both == CandidateSkillSet(payload)
                            \cap JobSkillSet(payload.jobs[i])
            IN /\ SeqToSet(results[i].matched_skills) = both
               /\ Len(results[i].matched_skills) = Cardinality(both)
    /\ Finished =>
        \A i \in 1..Len(results) :
            \E j \in 1..Len(payload.jobs) :
                LET both == CandidateSkillSet(payload)
                                \cap JobSkillSet(payload.jobs[j])
                IN /\ payload.jobs[j].id = results[i].job_id
                   /\ SeqToSet(results[i].matched_skills) = both
                   /\ Len(results[i].matched_skills) = Cardinality(both)

C5_Witness ==
    /\ Finished
    /\ Len(results) > 0
    /\ Len(results[1].matched_skills) = 2
    /\ \E j \in 1..Len(payload.jobs) :
          /\ payload.jobs[j].id = results[1].job_id
          /\ payload.jobs[j].required_skills = Some(<<Text_Python, Text_RUST>>)

\* the job ids the handler returns for a list of jobs, in order
RankedIds(cands, jobs, top_k) ==
    LET scored == [i \in 1..Len(jobs) |->
                      CHOOSE r \in MatchResultsOf(cands, jobs[i]) : TRUE]
        ranked == Truncate(SortByScore(scored), top_k)
    IN [i \in 1..Len(ranked) |-> ranked[i].job_id]

\* C6: with pairwise distinct job ids, every permutation of the jobs list
\* gives the same returned sequence.
C6_OrderIndependent ==
    (/\ Finished
     /\ \A i, j \in 1..Len(payload.jobs) :
            i # j => payload.jobs[i].id # payload.jobs[j].id) =>
        \A f \in IndexPermutations(Len(payload.jobs)) :
            RankedIds(cand_set,
                      [i \in 1..Len(payload.jobs) |-> payload.jobs[f[i]]],
                      payload.top_k)
              = [i \in 1..Len(results) |-> results[i].job_id]

\* what the extraction of client c's own upload should yield
OwnPdf(c) == ends_with(upload[c].file_name, Suffix_Pdf)

ExtractionFails(c) ==
    IF OwnPdf(c)
    THEN \/ ~pdftotext_installed
         \/ ~IsPdf(upload[c].data)
    ELSE \E i \in 1..Len(from_utf8_lossy(upload[c].data)) :
            from_utf8_lossy(upload[c].data)[i] = ReplacementChar

\* C7: a failed extraction (converter missing, file that is not a PDF, bytes
\* that are not valid text) ends as an "extraction failed" error result,
\* never as Ok and never without an error value.
C7_ExtractionFailureSurfaces ==
    \A c \in Clients :
        (ppc[c] = "done" /\ upload[c] # NoUpload /\ ExtractionFails(c)) =>
            /\ parsed[c].kind = "err"
            /\ parsed[c].message = "extraction failed"

\* C8: the matched_skills of every MatchResult are in lexicographic order.
C8_MatchedSorted ==
    pc \in {"scoring", "done"} =>
        \A i \in 1..Len(results) :
            \A k \in 1..(Len(results[i].matched_skills) - 1) :
                StrCmp(results[i].matched_skills[k],
                       results[i].matched_skills[k + 1]) = "less"

\* C9: handle_match ends with Ok and a ranked list for every request: no
\* similarity and no score is NaN, the comparator does not panic, and an
\* empty jobs list gives an empty list.
C9_Total ==
    /\ pc = "done" => outcome = "ok"
    /\ pc \in {"scoring", "done"} =>
          /\ skill_score.cls # "nan"
          /\ \A i \in 1..Len(results) : results[i].score.cls # "nan"
    /\ (pc = "done" /\ payload.jobs = <<>>) => results = <<>>
    /\ (pc = "done" /\ payload.top_k = None) =>
          Len(results) = Len(payload.jobs)

C9_Witness ==
    /\ Finished
    /\ cand_set = {}
    /\ Len(payload.jobs) = 2
    /\ \A j \in 1..2 : JobSkillSet(payload.jobs[j]) = {}
    /\ Len(results) = 2

\* C10: the text a request returns comes from the bytes uploaded in that
\* same request (for an upload whose own extraction can succeed).
C10_OwnUploadOnly ==
    \A c \in Clients :
        (ppc[c] = "done" /\ parsed[c].kind = "ok" /\ ~ExtractionFails(c)) =>
            parsed[c].text =
                from_utf8_lossy(
                    IF OwnPdf(c)
                    THEN PdfToTextOutput(TRUE, Some(upload[c].data)).stdout
                    ELSE upload[c].data)
====
